---- MODULE Spec2Model ----
(***************************************************************************)
(* Model of the CI pipeline of rust-utils: src/src/xtasks.rs (the pipeline *)
(* binary) and src/src/ci.rs (execute_command, format_files, FormatType,   *)
(* check_for_unused_deps).                                                 *)
(*                                                                         *)
(* The program is single threaded.  Its position is pc; the tracing span   *)
(* stack is scopes; the logging sink is log; the child processes that were *)
(* launched are spawned; the files are disk.  The two external formatting  *)
(* engines (taplo, pretty_yaml) are black boxes: they are the functions    *)
(* taplo and pretty_yaml, fixed for a behaviour and chosen arbitrarily in  *)
(* the initial state.  A panic ends the behaviour where it is raised.      *)
(***************************************************************************)
EXTENDS Integers, Sequences, FiniteSets, TLC

VARIABLES
    pc,          \* position of the program
    entry,       \* the function the environment called: "main" or "format_files"
    scopes,      \* stack of entered tracing spans, innermost last
    log,         \* records emitted through tracing::info! / tracing::error!
    spawned,     \* commands whose process was launched, in launch order
    call,        \* arguments of the last call of execute_command
    output,      \* what command.output() gave in that call
    ret,         \* Option<()> value of the last call that returned
    disk,        \* file path -> contents, or Unreadable
    taplo,       \* taplo::formatter::format with the options of ci.rs
    pretty_yaml, \* pretty_yaml::format_text with the default options
    files,       \* the argument of the current format_files invocation
    rest,        \* paths the loop of format_files has not got past yet
    fsops,       \* filesystem calls of the current format_files invocation
    disk0,       \* disk when the current format_files invocation started
    runs,        \* format_files invocations completed before the current one
    noisy,       \* number of launched commands that printed something
    status,      \* exit status of the process once it has ended
    toml_errors, \* the contents in which the parser of taplo finds syntax errors
    applied,     \* the last direct application of FormatType::parse or ::format
    trail        \* the earlier format_files invocations of a direct caller

vars == <<pc, entry, scopes, log, spawned, call, output, ret, disk, taplo,
          pretty_yaml, files, rest, fsops, disk0, runs, noisy, status,
          toml_errors, applied, trail>>

procVars == <<spawned, call, output, noisy>>
engineVars == <<taplo, pretty_yaml, toml_errors, applied, trail>>
fmtVars == <<disk, files, rest, fsops, disk0, runs>>

----------------------------------------------------------------------------
(* Bounds of the model *)

\* at most this many commands of a run print to stdout or stderr
MaxNoisy == 1
\* at most this many of the pipeline's config files differ from the others
MaxOdd == 0
\* longest path sequence handed to format_files by a direct caller
MaxFiles == 2
\* number of times a direct caller re-invokes format_files
MaxRuns == 1

----------------------------------------------------------------------------
(* Values *)

Some == "Some"
None == "None"
NoValue == "-"

\* contents of a text file; the engines are arbitrary functions over them
Contents == {"x", "y"}
\* a file that fs::read_to_string cannot read (missing, not UTF-8, no permission)
Unreadable == "<unreadable>"
\* the error of pretty_yaml::format_text
SyntaxError == "<syntax error>"

\* what a launched process can leave in a pipe: raw bytes
Stdouts == {<<>>, <<111, 107>>}
Stderrs == {<<>>, <<98, 255>>}
\* exit codes of a launched process
ExitCodes == {0, 1}
\* command.output() is Err: the program could not be launched
LaunchError == [called |-> TRUE, launched |-> FALSE]
Output(stdout, stderr, code) ==
    [called |-> TRUE, launched |-> TRUE,
     stdout |-> stdout, stderr |-> stderr, code |-> code]
NoOutput == [called |-> FALSE, launched |-> FALSE]
NoCall == [made |-> FALSE]
Call(command, description) ==
    [made |-> TRUE, command |-> command, description |-> description]

Ok(v) == [ok |-> TRUE, val |-> v]
Err(e) == [ok |-> FALSE, err |-> e]

\* a path of the model: what Path::display prints and what Path::extension returns
\* (<<"None">>, <<"NonUtf8">> for an OsStr that to_str rejects, <<"Str", s>>)
Path(display, extension) == [display |-> display, extension |-> extension]

RECURSIVE Utf8Lossy(_)
\* String::from_utf8_lossy on the byte strings of the model: ASCII bytes
\* decode to their character, a byte that is not valid UTF-8 to U+FFFD
Utf8Lossy(bytes) ==
    IF bytes = <<>> THEN ""
    ELSE LET b == Head(bytes)
             c == IF b = 111 THEN "o"
                  ELSE IF b = 107 THEN "k"
                  ELSE IF b = 98 THEN "b"
                  ELSE IF b < 128 THEN "?"
                  ELSE "\\u{FFFD}"
         IN c \o Utf8Lossy(Tail(bytes))

Record(level, text) == [level |-> level, text |-> text, spans |-> scopes]

\* span.entered() / dropping or exiting the guard of the innermost span
Enter(stack, name) == Append(stack, name)

\* the outermost span is closed instead of the innermost
Exit_outermost(stack) == Tail(stack)

Exit(stack) == SubSeq(stack, 1, Len(stack) - 1)
\* the guards are leaked: no span is exited when the function returns
DropGuards_leaked(stack, base) == stack

\* a function returns: the guards it still holds are dropped, last declared
\* first, which leaves the stack as deep as it was when the function was called
RECURSIVE DropGuards(_, _)
DropGuards(stack, base) ==
    IF Len(stack) <= base THEN stack ELSE DropGuards(Exit(stack), base)

\* a ? that does not return on None
Question_ignored(opt, onSome, onNone) == onSome

\* the ? operator on an Option: continue on Some, return None on None
Question(opt, onSome, onNone) == IF opt = Some THEN onSome ELSE onNone

----------------------------------------------------------------------------
(* ci.rs: execute_command *)

\* stderr is appended before stdout
execute_command_log_swapped(description, stdout, stderr) ==
    LET log0 == description
        log1 == IF stderr # <<>> THEN log0 \o "\n" \o Utf8Lossy(stderr) ELSE log0
        log2 == IF stdout # <<>> THEN log1 \o "\n" \o Utf8Lossy(stdout) ELSE log1
    IN log2

\* the String log that execute_command builds from the description and the
\* captured stdout and stderr
execute_command_log(description, stdout, stderr) ==
    LET log0 == description
        log1 == IF stdout # <<>> THEN log0 \o "\n" \o Utf8Lossy(stdout) ELSE log0
        log2 == IF stderr # <<>> THEN log1 \o "\n" \o Utf8Lossy(stderr) ELSE log1
    IN log2

\* one record, whose level follows the exit status
execute_command_events_by_status(description, stdout, stderr, code) ==
    <<Record(IF code = 0 THEN "INFO" ELSE "ERROR",
             execute_command_log(description, stdout, stderr))>>

\* the records execute_command emits for a launched process
execute_command_events(description, stdout, stderr, code) ==
    <<Record("INFO", execute_command_log(description, stdout, stderr))>>
    \o (IF code = 0 THEN <<>> ELSE <<Record("ERROR", "Failed")>>)

\* the exit status is not looked at
execute_command_result_always(code) == Some

\* the value execute_command returns for a launched process
execute_command_result(code) == IF code = 0 THEN Some ELSE None

\* the launch failure is logged before the panic
unwrap_panic_logged(command, description) ==
    /\ call' = Call(command, description)
    /\ output' = LaunchError
    /\ log' = Append(log, Record("ERROR", "Failed"))
    /\ pc' = "panicked"
    /\ status' = 101
    /\ UNCHANGED <<entry, scopes, ret, spawned, noisy, engineVars, fmtVars>>

\* unwrap_or_else on the Err of command.output(): the closure panics, so
\* nothing is logged and nothing is returned; a panicking process ends with
\* status 101
unwrap_panic(command, description) ==
    /\ call' = Call(command, description)
    /\ output' = LaunchError
    /\ pc' = "panicked"
    /\ status' = 101
    /\ UNCHANGED <<entry, scopes, log, ret, spawned, noisy, engineVars, fmtVars>>

\* execute_command(command, description) called at a place of the program
\* that goes on at onSome when the call returns Some(()) and at onNone when it
\* returns None.  launched is whether command.output() is Ok.
execute_command(command, description, onSome, onNone) ==
    \E launched \in BOOLEAN, stdout \in Stdouts, stderr \in Stderrs,
       code \in ExitCodes :
        IF ~launched
        THEN unwrap_panic(command, description)
        ELSE /\ (stdout # <<>> \/ stderr # <<>>) => noisy < MaxNoisy
             /\ noisy' = IF stdout # <<>> \/ stderr # <<>> THEN noisy + 1 ELSE noisy
             /\ call' = Call(command, description)
             /\ output' = Output(stdout, stderr, code)
             /\ spawned' = Append(spawned, command)
             /\ log' = log \o execute_command_events(description, stdout, stderr, code)
             /\ ret' = execute_command_result(code)
             /\ pc' = Question(execute_command_result(code), onSome, onNone)
             /\ UNCHANGED <<entry, scopes, status, engineVars, fmtVars>>

----------------------------------------------------------------------------
(* xtasks.rs: the commands and the files of the pipeline.  The span name    *)
(* "Check rust-utils" and the description "Installing cargo-machete." are  *)
(* written in the source with grave accents around the package and the     *)
(* tool name; the accents are left out of the strings of this module.     *)

CLIPPY == <<"cargo", "clippy", "--package", "rust-utils">>
DOC_PUBLIC == <<"cargo", "doc", "--package", "rust-utils">>
DOC_PRIVATE == <<"cargo", "doc", "--package", "rust-utils", "--document-private-items">>
FMT_CHECK == <<"cargo", "fmt", "--check", "--package", "rust-utils">>
MACHETE_INSTALL == <<"cargo", "install", "cargo-machete@0.9.1", "--locked">>
MACHETE_RUN == <<"cargo-machete", "--with-metadata">>

CONFIG_FILES ==
    << Path(".cargo/config.toml", <<"Str", "toml">>),
       Path("Cargo.toml", <<"Str", "toml">>),
       Path("rust-toolchain.toml", <<"Str", "toml">>),
       Path(".github/workflows/ci.yml", <<"Str", "yml">>),
       Path(".github/dependabot.yml", <<"Str", "yml">>) >>

----------------------------------------------------------------------------
(* xtasks.rs: main, run_ci_pipeline, run_ci_pipeline_rust_utils *)

\* a statement that only opens a span
EnterSpan(at, name, next) ==
    /\ pc = at
    /\ scopes' = Enter(scopes, name)
    /\ pc' = next
    /\ UNCHANGED <<entry, log, ret, status, procVars, engineVars, fmtVars>>

\* span.exit()
ExitSpan(at, next) ==
    /\ pc = at
    /\ scopes' = Exit(scopes)
    /\ pc' = next
    /\ UNCHANGED <<entry, log, ret, status, procVars, engineVars, fmtVars>>

\* a run_ci_pipeline that logs the failure of its callee before returning
ReturnToPipeline_logged(at, onSome) ==
    /\ pc = at
    /\ scopes' = DropGuards(scopes, 0)
    /\ pc' = Question(ret, onSome, "main_ret")
    /\ log' = IF ret = None
              THEN Append(log, [level |-> "ERROR", text |-> "The pipeline failed",
                                spans |-> <<>>])
              ELSE log
    /\ UNCHANGED <<entry, ret, status, procVars, engineVars, fmtVars>>

\* a callee of run_ci_pipeline returns ret: its guards are dropped and the
\* ? of run_ci_pipeline goes on at onSome or returns None to main
ReturnToPipeline(at, onSome) ==
    /\ pc = at
    /\ scopes' = DropGuards(scopes, 0)
    /\ pc' = Question(ret, onSome, "main_ret")
    /\ UNCHANGED <<entry, log, ret, status, procVars, engineVars, fmtVars>>

\* main: init_logger(), then run_ci_pipeline() calls run_ci_pipeline_rust_utils()
main ==
    /\ pc = "main"
    /\ pc' = "pkg_span"
    /\ UNCHANGED <<entry, scopes, log, ret, status, procVars, engineVars, fmtVars>>

pkg_span == EnterSpan("pkg_span", "Check rust-utils", "clippy_span")

clippy_span == EnterSpan("clippy_span", "Clippy", "clippy")

clippy ==
    /\ pc = "clippy"
    /\ execute_command(CLIPPY, "Checking the source code",
                       "clippy_exit", "rust_utils_ret")

clippy_exit == ExitSpan("clippy_exit", "docs_span")

docs_span == EnterSpan("docs_span", "Docs", "doc_public")

doc_public ==
    /\ pc = "doc_public"
    /\ execute_command(DOC_PUBLIC, "Generating the public documentation.",
                       "doc_private", "rust_utils_ret")

\* the private documentation is not generated
doc_private_skipped ==
    /\ pc = "doc_private"
    /\ pc' = "docs_exit"
    /\ UNCHANGED <<entry, scopes, log, ret, status, procVars, engineVars, fmtVars>>

doc_private ==
    /\ pc = "doc_private"
    /\ execute_command(DOC_PRIVATE, "Generating the private documentation.",
                       "docs_exit", "rust_utils_ret")

docs_exit == ExitSpan("docs_exit", "format_span")

format_span == EnterSpan("format_span", "Format", "fmt_check")

\* the tail expression of run_ci_pipeline_rust_utils: its value is returned
fmt_check ==
    /\ pc = "fmt_check"
    /\ execute_command(FMT_CHECK, "Checking the formatting of the code.",
                       "rust_utils_ret", "rust_utils_ret")

\* run_ci_pipeline_rust_utils()? in run_ci_pipeline
rust_utils_ret == ReturnToPipeline("rust_utils_ret", "deps_span")

----------------------------------------------------------------------------
(* ci.rs: check_for_unused_deps *)

deps_span == EnterSpan("deps_span", "Dependencies", "machete_install")

machete_install ==
    /\ pc = "machete_install"
    /\ execute_command(MACHETE_INSTALL, "Installing cargo-machete.",
                       "machete_run", "deps_ret")

\* the tail expression of check_for_unused_deps
machete_run ==
    /\ pc = "machete_run"
    /\ execute_command(MACHETE_RUN, "Checking for unused dependencies.",
                       "deps_ret", "deps_ret")

\* check_for_unused_deps()? in run_ci_pipeline
deps_ret == ReturnToPipeline("deps_ret", "format_files")

----------------------------------------------------------------------------
(* ci.rs: FormatType *)

\* the extension is compared without regard to case
FormatType_parse_caseless(file_path) ==
    LET extension == file_path.extension
        shown == file_path.display
    IN  IF extension = <<"None">>
        THEN Err("'" \o shown \o "' doesn't have a file extension.")
        ELSE IF extension = <<"NonUtf8">>
        THEN Err("'" \o shown \o "' doesn't have an UTF-8 file extension.")
        ELSE IF extension[2] \in {"toml", "TOML", "Toml"} THEN Ok("Toml")
        ELSE IF extension[2] \in {"yaml", "yml", "YAML", "Yaml", "YML"} THEN Ok("Yaml")
        ELSE Err("The extension of '" \o shown \o "' isn't supported file extension.")

\* FormatType::parse: the file type from the extension of the path
FormatType_parse(file_path) ==
    LET extension == file_path.extension
        shown == file_path.display
    IN  IF extension = <<"None">>
        THEN Err("'" \o shown \o "' doesn't have a file extension.")
        ELSE IF extension = <<"NonUtf8">>
        THEN Err("'" \o shown \o "' doesn't have an UTF-8 file extension.")
        ELSE IF extension[2] = "toml" THEN Ok("Toml")
        ELSE IF extension[2] \in {"yaml", "yml"} THEN Ok("Yaml")
        ELSE Err("The extension of '" \o shown \o "' isn't supported file extension.")

\* FormatType::format: the TOML arm wraps what taplo returns in Ok, the YAML
\* arm passes the error of pretty_yaml on under a context
FormatType_format(self, file_contents) ==
    IF self = "Toml"
    THEN Ok(taplo[file_contents])
    ELSE IF pretty_yaml[file_contents] = SyntaxError
         THEN Err("Couldn't parse the contents of the file as valid YAML."
                  \o "\n\nCaused by:\n    " \o SyntaxError)
         ELSE Ok(pretty_yaml[file_contents])

----------------------------------------------------------------------------
(* ci.rs: format_files *)

\* fs::read_to_string
fs_read_to_string(file_path) ==
    IF disk[file_path.display] = Unreadable
    THEN Err("<io error>")
    ELSE Ok(disk[file_path.display])

\* anyhow's with_context followed by the {:?} rendering of the error
WithContext(context, cause) == context \o "\n\nCaused by:\n    " \o cause

ReadContext(file_path) ==
    "Couldn't read the contents of '" \o file_path.display \o "'."
FormatContext(file_path) ==
    "Couldn't format the contents of '" \o file_path.display \o "'."
WriteContext(file_path) ==
    "Couldn't overwrite '" \o file_path.display \o "' with its reformatted version"
DriftMessage(file_path) ==
    "'" \o file_path.display \o "' wasn't formatted correctly and has been formatted."
SuccessMessage == "All the files are formatted correctly."

\* the comparison never finds a difference
IsFormatted_always(formatted, file_contents) == TRUE

\* the comparison is inverted
IsFormatted_inverted(formatted, file_contents) == formatted # file_contents

\* whether the loop goes on to the next path after comparing the formatted
\* text with the contents that were read
IsFormatted(formatted, file_contents) == formatted = file_contents

\* the error is logged and the loop goes on with the next path
format_files_fail_continue(text, ops, newDisk) ==
    /\ log' = Append(log, Record("ERROR", text))
    /\ fsops' = fsops \o ops
    /\ disk' = newDisk
    /\ rest' = Tail(rest)
    /\ UNCHANGED <<pc, entry, scopes, ret, status, files, disk0, runs,
                   procVars, engineVars>>

\* the error is logged but Some(()) is returned
format_files_fail_some(text, ops, newDisk) ==
    /\ log' = Append(log, Record("ERROR", text))
    /\ fsops' = fsops \o ops
    /\ disk' = newDisk
    /\ ret' = Some
    /\ pc' = "format_ret"
    /\ UNCHANGED <<entry, scopes, status, files, rest, disk0, runs,
                   procVars, engineVars>>

\* .inspect_err(|e| tracing::error!("{:?}", e)).ok()? on an Err, or the
\* return None after a rewrite: one error record, then None is returned
format_files_fail(text, ops, newDisk) ==
    /\ log' = Append(log, Record("ERROR", text))
    /\ fsops' = fsops \o ops
    /\ disk' = newDisk
    /\ ret' = None
    /\ pc' = "format_ret"
    /\ UNCHANGED <<entry, scopes, status, files, rest, disk0, runs,
                   procVars, engineVars>>

\* format_files is called: the span "Formatting" is entered, the loop starts
format_files ==
    /\ pc = "format_files"
    /\ scopes' = Enter(scopes, "Formatting")
    /\ rest' = files
    /\ fsops' = <<>>
    /\ disk0' = disk
    /\ pc' = "format_loop"
    /\ UNCHANGED <<entry, log, ret, status, disk, files, runs, procVars, engineVars>>

\* a loop that rewrites a drifted file, logs it and goes on with the next
\* path instead of returning
format_files_loop_fix_all ==
    /\ pc = "format_loop"
    /\ rest # <<>>
    /\ LET file_path == Head(rest)
           file_type == FormatType_parse(file_path)
           file_contents == fs_read_to_string(file_path)
           formatted == FormatType_format(file_type.val, file_contents.val)
           read == <<"read", file_path.display>>
           write == <<"write", file_path.display>>
       IN  IF ~file_type.ok
           THEN format_files_fail(file_type.err, <<>>, disk)
           ELSE IF ~file_contents.ok
           THEN format_files_fail(WithContext(ReadContext(file_path), file_contents.err),
                                  <<read>>, disk)
           ELSE IF ~formatted.ok
           THEN format_files_fail(WithContext(FormatContext(file_path), formatted.err),
                                  <<read>>, disk)
           ELSE IF ~IsFormatted(formatted.val, file_contents.val)
           THEN /\ rest' = Tail(rest)
                /\ fsops' = fsops \o <<read, write>>
                /\ disk' = [disk EXCEPT ![file_path.display] = formatted.val]
                /\ log' = Append(log, Record("ERROR", DriftMessage(file_path)))
                /\ UNCHANGED <<pc, entry, scopes, ret, status, files,
                               disk0, runs, procVars, engineVars>>
           ELSE /\ rest' = Tail(rest)
                /\ fsops' = Append(fsops, read)
                /\ UNCHANGED <<pc, entry, scopes, log, ret, status, disk, files,
                               disk0, runs, procVars, engineVars>>

\* a loop that reports a drifted file without rewriting it
format_files_loop_report_only ==
    /\ pc = "format_loop"
    /\ rest # <<>>
    /\ LET file_path == Head(rest)
           file_type == FormatType_parse(file_path)
           file_contents == fs_read_to_string(file_path)
           formatted == FormatType_format(file_type.val, file_contents.val)
           read == <<"read", file_path.display>>
       IN  IF ~file_type.ok
           THEN format_files_fail(file_type.err, <<>>, disk)
           ELSE IF ~file_contents.ok
           THEN format_files_fail(WithContext(ReadContext(file_path), file_contents.err),
                                  <<read>>, disk)
           ELSE IF ~formatted.ok
           THEN format_files_fail(WithContext(FormatContext(file_path), formatted.err),
                                  <<read>>, disk)
           ELSE IF ~IsFormatted(formatted.val, file_contents.val)
           THEN format_files_fail(DriftMessage(file_path), <<read>>, disk)
           ELSE /\ rest' = Tail(rest)
                /\ fsops' = Append(fsops, read)
                /\ UNCHANGED <<pc, entry, scopes, log, ret, status, disk, files,
                               disk0, runs, procVars, engineVars>>

\* one iteration of the loop over the paths
format_files_loop ==
    /\ pc = "format_loop"
    /\ rest # <<>>
    /\ LET file_path == Head(rest)
           file_type == FormatType_parse(file_path)
           file_contents == fs_read_to_string(file_path)
           formatted == FormatType_format(file_type.val, file_contents.val)
           read == <<"read", file_path.display>>
           write == <<"write", file_path.display>>
       IN  IF ~file_type.ok
           THEN format_files_fail(file_type.err, <<>>, disk)
           ELSE IF ~file_contents.ok
           THEN format_files_fail(WithContext(ReadContext(file_path), file_contents.err),
                                  <<read>>, disk)
           ELSE IF ~formatted.ok
           THEN format_files_fail(WithContext(FormatContext(file_path), formatted.err),
                                  <<read>>, disk)
           ELSE IF ~IsFormatted(formatted.val, file_contents.val)
           THEN \E written \in BOOLEAN :
                    IF written
                    THEN format_files_fail(DriftMessage(file_path), <<read, write>>,
                             [disk EXCEPT ![file_path.display] = formatted.val])
                    ELSE format_files_fail(
                             WithContext(WriteContext(file_path), "<io error>"),
                             <<read, write>>, disk)
           ELSE /\ rest' = Tail(rest)
                /\ fsops' = Append(fsops, read)
                /\ UNCHANGED <<pc, entry, scopes, log, ret, status, disk, files,
                               disk0, runs, procVars, engineVars>>

\* Some(()) is returned without the success record
format_files_ok_silent ==
    /\ pc = "format_loop"
    /\ rest = <<>>
    /\ ret' = Some
    /\ pc' = "format_ret"
    /\ UNCHANGED <<entry, scopes, log, status, procVars, engineVars, fmtVars>>

\* the loop is over: the success record, then Some(()) is returned
format_files_ok ==
    /\ pc = "format_loop"
    /\ rest = <<>>
    /\ log' = Append(log, Record("INFO", SuccessMessage))
    /\ ret' = Some
    /\ pc' = "format_ret"
    /\ UNCHANGED <<entry, scopes, status, procVars, engineVars, fmtVars>>

\* format_files returns: the guard _span is dropped.  In the pipeline the
\* value is the value of run_ci_pipeline
format_ret ==
    /\ pc = "format_ret"
    /\ scopes' = DropGuards(scopes, 0)
    /\ pc' = IF entry = "main" THEN "main_ret" ELSE "returned"
    /\ UNCHANGED <<entry, log, ret, status, procVars, engineVars, fmtVars>>

\* a direct caller invokes format_files again on the same paths; what the
\* finished invocation started from, did, logged and returned is kept in
\* trail
Rerun ==
    /\ pc = "returned"
    /\ runs < MaxRuns
    /\ runs' = runs + 1
    /\ trail' = Append(trail, [disk0 |-> disk0, log |-> log, ret |-> ret,
                               fsops |-> fsops])
    /\ log' = <<>>
    /\ ret' = NoValue
    /\ pc' = "format_files"
    /\ UNCHANGED <<entry, scopes, status, disk, files, rest, fsops, disk0,
                   procVars, taplo, pretty_yaml, toml_errors, applied>>

\* a main that ends with Ok(()) whatever the pipeline returned
ExitStatus_zero(opt) == 0

\* main: run_ci_pipeline().ok_or(()) is the exit status of the process
ExitStatus(opt) == IF opt = Some THEN 0 ELSE 1

main_ret ==
    /\ pc = "main_ret"
    /\ status' = ExitStatus(ret)
    /\ pc' = "exited"
    /\ UNCHANGED <<entry, scopes, log, ret, procVars, engineVars, fmtVars>>

----------------------------------------------------------------------------
(* Initial states *)

Names(paths) == {paths[i].display : i \in DOMAIN paths}

\* the engines are arbitrary; taplo's format returns a String, never an error
TaploEngines == [Contents -> Contents]
YamlEngines == [Contents -> Contents \cup {SyntaxError}]

\* the config files of the repository: at most MaxOdd of them differ from "x"
ConfigDisks ==
    { d \in [Names(CONFIG_FILES) -> Contents \cup {Unreadable}] :
        Cardinality({n \in Names(CONFIG_FILES) : d[n] # "x"}) <= MaxOdd }

\* paths a direct caller of format_files may pass
POOL ==
    { Path("a.toml", <<"Str", "toml">>),
      Path("b.yaml", <<"Str", "yaml">>),
      Path("c.yml", <<"Str", "yml">>),
      Path("Makefile", <<"None">>),
      Path("notes.txt", <<"Str", "txt">>),
      Path("raw.\\xFF", <<"NonUtf8">>) }

PathSeqs == UNION { [1..n -> POOL] : n \in 0..MaxFiles }

PoolNames == {p.display : p \in POOL}

\* files that are not passed keep the content "x"
PoolDisks(paths) ==
    { d \in [PoolNames -> Contents \cup {Unreadable}] :
        \A n \in PoolNames \ Names(paths) : d[n] = "x" }

NotApplied == [fn |-> "none"]

InitCommon ==
    /\ scopes = <<>>
    /\ log = <<>>
    /\ spawned = <<>>
    /\ call = NoCall
    /\ output = NoOutput
    /\ ret = NoValue
    /\ rest = <<>>
    /\ fsops = <<>>
    /\ runs = 0
    /\ noisy = 0
    /\ status = -1
    /\ trail = <<>>
    /\ applied = NotApplied
    /\ taplo \in TaploEngines
    /\ pretty_yaml \in YamlEngines

\* the pipeline binary is started
Init ==
    /\ InitCommon
    /\ toml_errors = {}
    /\ entry = "main"
    /\ pc = "main"
    /\ files = CONFIG_FILES
    /\ disk \in ConfigDisks
    /\ disk0 = disk

\* a client of the library calls format_files
InitFormat ==
    /\ InitCommon
    /\ toml_errors = {}
    /\ entry = "format_files"
    /\ pc = "format_files"
    /\ files \in PathSeqs
    /\ disk \in PoolDisks(files)
    /\ disk0 = disk

Next ==
    \/ main
    \/ pkg_span
    \/ clippy_span
    \/ clippy
    \/ clippy_exit
    \/ docs_span
    \/ doc_public
    \/ doc_private
    \/ docs_exit
    \/ format_span
    \/ fmt_check
    \/ rust_utils_ret
    \/ deps_span
    \/ machete_install
    \/ machete_run
    \/ deps_ret
    \/ format_files
    \/ format_files_loop
    \/ format_files_ok
    \/ format_ret
    \/ main_ret

NextFormat ==
    \/ format_files
    \/ format_files_loop
    \/ format_files_ok
    \/ format_ret
    \/ Rerun

Spec == Init /\ [][Next]_vars

SpecFormat == InitFormat /\ [][NextFormat]_vars

----------------------------------------------------------------------------
(* FormatType::parse and FormatType::format applied on their own *)

FormatTypes == {"Toml", "Yaml"}

\* paths handed to FormatType::parse: every pool path, and paths that differ
\* from them in the stem only, in the case of the extension, or by one letter
PARSE_PATHS ==
    POOL \cup
    { Path("dir/other.toml", <<"Str", "toml">>),
      Path("other.yaml", <<"Str", "yaml">>),
      Path(".github/other.yml", <<"Str", "yml">>),
      Path("A.TOML", <<"Str", "TOML">>),
      Path("b.Yaml", <<"Str", "Yaml">>),
      Path("c.tml", <<"Str", "tml">>),
      Path("d.yamll", <<"Str", "yamll">>),
      Path("e.json", <<"Str", "json">>),
      Path("toml", <<"None">>),
      Path(".yml", <<"None">>) }

\* the library is used for its formatting functions only
InitPure ==
    /\ InitCommon
    /\ toml_errors \in SUBSET Contents
    /\ entry = "FormatType"
    /\ pc = "pure"
    /\ files = <<>>
    /\ disk = [n \in PoolNames |-> "x"]
    /\ disk0 = disk

pureFrame ==
    UNCHANGED <<pc, entry, scopes, log, ret, status, procVars, fmtVars,
                taplo, pretty_yaml, toml_errors, trail>>

\* FormatType::parse(file_path)
ApplyParse ==
    /\ pc = "pure"
    /\ \E file_path \in PARSE_PATHS :
        applied' = [fn |-> "parse", file_path |-> file_path,
                    out |-> FormatType_parse(file_path)]
    /\ pureFrame

\* self.format(file_contents)
ApplyFormat ==
    /\ pc = "pure"
    /\ \E self \in FormatTypes, file_contents \in Contents :
        applied' = [fn |-> "format", self |-> self,
                    file_contents |-> file_contents,
                    out |-> FormatType_format(self, file_contents)]
    /\ pureFrame

NextPure ==
    \/ ApplyParse
    \/ ApplyFormat

SpecPure == InitPure /\ [][NextPure]_vars

----------------------------------------------------------------------------
(* Properties of the pipeline (Spec) *)

IsPrefix(s, t) == Len(s) <= Len(t) /\ s = SubSeq(t, 1, Len(s))

Range(s) == {s[i] : i \in DOMAIN s}

\* the commands of a complete run, in the order of the source
PIPELINE_COMMANDS ==
    <<CLIPPY, DOC_PUBLIC, DOC_PRIVATE, FMT_CHECK, MACHETE_INSTALL, MACHETE_RUN>>

\* the reads of a format_files invocation that reaches every config file
CONFIG_READS == [i \in DOMAIN CONFIG_FILES |-> <<"read", CONFIG_FILES[i].display>>]

ErrorRecords(records) == {i \in DOMAIN records : records[i].level = "ERROR"}

\* places of the program at which a function is returning to its caller
Returning == {"rust_utils_ret", "deps_ret", "format_ret", "main_ret", "exited"}

\* C1: the steps of run_ci_pipeline run in the order of the source, and
\* once a step has yielded failure (a process exited non-zero, or
\* format_files returned None) the program only returns: no process is
\* launched, no file is read or written, nothing more is logged, the value
\* stays None up to main and the exit status is not 0.  In particular a
\* failed installation of cargo-machete is the last process of the run and
\* format_files is never entered after it.
C1_ShortCircuit ==
    /\ [](IsPrefix(spawned, PIPELINE_COMMANDS))
    /\ [](output.launched /\ output.code # 0 => ret = None)
    /\ [][ret = None =>
            /\ spawned' = spawned
            /\ fsops' = fsops
            /\ disk' = disk
            /\ log' = log
            /\ ret' = None
            /\ pc' \in Returning]_vars
    /\ [](pc = "exited" /\ ret = None => status # 0)
    /\ [](/\ output.launched
          /\ output.code # 0
          /\ call.command = MACHETE_INSTALL
          => /\ spawned = SubSeq(PIPELINE_COMMANDS, 1, 5)
             /\ fsops = <<>>
             /\ \A i \in DOMAIN log : "Formatting" \notin Range(log[i].spans)
             /\ "Formatting" \notin Range(scopes))

\* the installation of cargo-machete failed and the process has ended
C1_Witness ==
    /\ pc = "exited"
    /\ output.launched
    /\ output.code # 0
    /\ call.command = MACHETE_INSTALL
    /\ status = 1

\* C2: a run that ends without any error record launched the six commands
\* once each in the order clippy, public docs, private docs, fmt --check,
\* cargo install cargo-machete, cargo-machete, then ran format_files over
\* the five config files in their order, returned Some and exited with 0.
C2_AllPass ==
    pc = "exited" /\ ErrorRecords(log) = {} =>
        /\ spawned = PIPELINE_COMMANDS
        /\ files = CONFIG_FILES
        /\ fsops = CONFIG_READS
        /\ ret = Some
        /\ status = 0

\* a run in which every step passed has ended
C2_Witness ==
    /\ pc = "exited"
    /\ ErrorRecords(log) = {}
    /\ Len(spawned) = 6
    /\ Len(fsops) = 5

\* the String that execute_command built in its last call
LastCommandLog == execute_command_log(call.description, output.stdout, output.stderr)

\* the last process was launched and exited with a non-zero status
LastCommandFailed == output.launched /\ output.code # 0

\* C7 as stated: after a process has exited with a non-zero status the
\* record that combines the description with the captured stdout and
\* stderr is in the log at error level, not at informational level, and
\* None was returned.
C7_CombinedAtErrorLevel ==
    LastCommandFailed =>
        /\ \E i \in DOMAIN log :
            log[i].text = LastCommandLog /\ log[i].level = "ERROR"
        /\ \A i \in DOMAIN log :
            log[i].text = LastCommandLog => log[i].level # "INFO"
        /\ ret = None

\* C7 amended: after a process has exited with a non-zero status the log
\* ends with two records of the call, first the record that combines the
\* description with the captured stdout and stderr, at informational
\* level, then the record "Failed" at error level, which is the only
\* error record; None was returned.
C7_CombinedAtInfoThenFailed ==
    LastCommandFailed =>
        /\ Len(log) >= 2
        /\ log[Len(log) - 1].level = "INFO"
        /\ log[Len(log) - 1].text = LastCommandLog
        /\ log[Len(log)].level = "ERROR"
        /\ log[Len(log)].text = "Failed"
        /\ log[Len(log)].spans = log[Len(log) - 1].spans
        /\ ErrorRecords(log) = {Len(log)}
        /\ ret = None

\* clippy exited with status 1 and printed to stderr only
C7_Witness ==
    /\ pc = "rust_utils_ret"
    /\ call.command = CLIPPY
    /\ LastCommandFailed
    /\ output.stdout = <<>>
    /\ output.stderr # <<>>
    /\ Len(log) = 2

\* C8: a call of execute_command whose process is launched returns Some
\* exactly if the exit status is 0; if the status is 0 and stdout and stderr
\* are empty, the call appends one record to the log, at informational
\* level, whose text is the description.
C8_SuccessIffZero ==
    [][spawned' # spawned =>
         /\ (ret' = Some) <=> (output'.code = 0)
         /\ ( /\ output'.code = 0
              /\ output'.stdout = <<>>
              /\ output'.stderr = <<>> )
            => log' = Append(log, [level |-> "INFO",
                                   text |-> call'.description,
                                   spans |-> scopes])]_vars

\* clippy exited with status 0 and printed nothing
C8_Witness ==
    /\ pc = "clippy_exit"
    /\ output.launched
    /\ output.code = 0
    /\ output.stdout = <<>>
    /\ output.stderr = <<>>
    /\ ret = Some
    /\ Len(log) = 1
    /\ log[1].text = "Checking the source code"

\* C9: when the program of a command cannot be launched the run panics:
\* the step that finds the launch failure logs nothing, launches nothing
\* and returns nothing (the value of the last call stays what it was, never
\* None), the process status is that of a panic, and no step of the
\* program follows.
C9_LaunchFailurePanics ==
    /\ [](output.called /\ ~output.launched =>
            pc = "panicked" /\ status = 101 /\ ret # None)
    /\ [](pc = "panicked" => output.called /\ ~output.launched)
    /\ [][output'.called /\ ~output'.launched =>
            log' = log /\ spawned' = spawned /\ ret' = ret]_vars
    /\ [][pc # "panicked"]_vars

\* the private documentation command could not be launched
C9_Witness ==
    /\ pc = "panicked"
    /\ call.command = DOC_PRIVATE
    /\ ~output.launched
    /\ spawned = <<CLIPPY, DOC_PUBLIC>>
    /\ Len(log) = 2

\* C10: when run_ci_pipeline has returned to main, whichever step failed
\* or if none did, no span is entered any more: the stack of scopes is
\* empty.
C10_ScopesClosed ==
    pc \in {"main_ret", "exited"} => scopes = <<>>

\* the public documentation command failed inside two spans and
\* run_ci_pipeline has returned
C10_Witness ==
    /\ pc = "main_ret"
    /\ ret = None
    /\ spawned = <<CLIPPY, DOC_PUBLIC>>
    /\ log[Len(log)].spans = <<"Check rust-utils", "Docs">>
    /\ scopes = <<>>

----------------------------------------------------------------------------
(* Properties of format_files called on arbitrary paths (SpecFormat) *)

\* what the checks of one loop iteration find for a path on the disk d
Verdict(p, d) ==
    IF ~FormatType_parse(p).ok THEN "unresolved"
    ELSE IF d[p.display] = Unreadable THEN "unreadable"
    ELSE IF ~FormatType_format(FormatType_parse(p).val, d[p.display]).ok
    THEN "unparseable"
    ELSE IF FormatType_format(FormatType_parse(p).val, d[p.display]).val
            # d[p.display]
    THEN "drifted"
    ELSE "formatted"

\* format(x) for a path whose contents x on the disk d can be formatted
FormatOf(p, d) == FormatType_format(FormatType_parse(p).val, d[p.display]).val

\* index of the first of the passed paths that is not formatted, 0 if none
FirstFailing ==
    IF \A i \in DOMAIN files : Verdict(files[i], disk0) = "formatted" THEN 0
    ELSE CHOOSE k \in DOMAIN files :
            /\ Verdict(files[k], disk0) # "formatted"
            /\ \A j \in 1..(k - 1) : Verdict(files[j], disk0) = "formatted"

ReadsUpTo(n) == [i \in 1..n |-> <<"read", files[i].display>>]

Reached(p) == <<"read", p.display>> \in Range(fsops)

WriteFailed(p) ==
    \E i \in DOMAIN log :
        log[i].text = WithContext(WriteContext(p), "<io error>")

Writes == {i \in DOMAIN fsops : fsops[i][1] = "write"}

LastRecord == log[Len(log)]

\* C3: when format_files has returned, every passed file that was read,
\* whose contents x at the start of the invocation have format(x) # x and
\* whose overwrite did not fail holds exactly format(x) on disk, and the
\* invocation returned None.
C3_DriftRewritten ==
    pc = "returned" =>
        \A i \in DOMAIN files :
            ( /\ Reached(files[i])
              /\ Verdict(files[i], disk0) = "drifted"
              /\ ~WriteFailed(files[i]) )
            => /\ disk[files[i].display] = FormatOf(files[i], disk0)
               /\ disk[files[i].display] # disk0[files[i].display]
               /\ ret = None

\* a drifted file has been rewritten and format_files has returned
C3_Witness ==
    /\ pc = "returned"
    /\ ret = None
    /\ Writes # {}
    /\ \E i \in DOMAIN files :
        /\ Verdict(files[i], disk0) = "drifted"
        /\ ~WriteFailed(files[i])
        /\ disk[files[i].display] = FormatOf(files[i], disk0)

\* C4: if every passed path resolves to a type, is readable and holds
\* contents x with format(x) = x, then when format_files has returned it
\* has attempted no write, the disk is the disk of the start and the value
\* returned is Some.
C4_FormattedUntouched ==
    ( /\ pc = "returned"
      /\ \A i \in DOMAIN files : Verdict(files[i], disk0) = "formatted" )
    => /\ Writes = {}
       /\ fsops = ReadsUpTo(Len(files))
       /\ disk = disk0
       /\ ret = Some

\* two formatted files were passed and format_files has returned
C4_Witness ==
    /\ pc = "returned"
    /\ Len(files) = 2
    /\ \A i \in DOMAIN files : Verdict(files[i], disk0) = "formatted"
    /\ ret = Some

\* C5: if the first passed path that is not formatted is one whose type
\* does not resolve (no extension, an extension that is not UTF-8, or one
\* other than toml, yaml, yml), then when format_files has returned it
\* returned None, logged the resolution error, the only filesystem calls
\* are the reads of the paths before it (that path and the later ones are
\* neither read nor written), and the disk is the disk of the start.
C5_UnresolvedUntouched ==
    ( /\ pc = "returned"
      /\ FirstFailing # 0
      /\ Verdict(files[FirstFailing], disk0) = "unresolved" )
    => /\ ret = None
       /\ LastRecord.level = "ERROR"
       /\ LastRecord.text = FormatType_parse(files[FirstFailing]).err
       /\ fsops = ReadsUpTo(FirstFailing - 1)
       /\ Writes = {}
       /\ disk = disk0

\* a formatted file was read, then a path without a supported extension
\* ended the invocation
C5_Witness ==
    /\ pc = "returned"
    /\ FirstFailing = 2
    /\ Verdict(files[2], disk0) = "unresolved"
    /\ ret = None
    /\ Len(fsops) = 1

\* C6: if the first passed path that is not formatted holds contents on
\* which format fails, then when format_files has returned it returned
\* None, attempted no write and left the disk as it was, its last record
\* is the error record of the format failure, which is not the drift
\* record of any passed file, and no drift record is in the log.
C6_UnparseableNoWrite ==
    ( /\ pc = "returned"
      /\ FirstFailing # 0
      /\ Verdict(files[FirstFailing], disk0) = "unparseable" )
    => /\ ret = None
       /\ Writes = {}
       /\ disk = disk0
       /\ LastRecord.level = "ERROR"
       /\ LastRecord.text =
            WithContext(FormatContext(files[FirstFailing]),
                FormatType_format(FormatType_parse(files[FirstFailing]).val,
                                  disk0[files[FirstFailing].display]).err)
       /\ \A i \in DOMAIN log, j \in DOMAIN files :
            log[i].text # DriftMessage(files[j])

\* a YAML file that does not parse ended the invocation
C6_Witness ==
    /\ pc = "returned"
    /\ FirstFailing # 0
    /\ Verdict(files[FirstFailing], disk0) = "unparseable"
    /\ ret = None
    /\ Cardinality(ErrorRecords(log)) = 1

----------------------------------------------------------------------------
(* The exit status of the pipeline (Spec) *)

\* every step of the pipeline passed: the six commands were launched, the
\* last of them (so, by the order of the steps, each of them) exited with
\* status 0, and each of the five config files is readable and formatted
AllStepsPassed ==
    /\ spawned = PIPELINE_COMMANDS
    /\ output.launched
    /\ output.code = 0
    /\ \A i \in DOMAIN CONFIG_FILES :
        Verdict(CONFIG_FILES[i], disk0) = "formatted"

\* C11: when the process has ended its exit status is 0 exactly if every
\* step of the pipeline passed: it is 1 when main returned after a step
\* failed and 101 after the panic of a launch failure, never 0 then.
C11_ExitStatus ==
    pc \in {"exited", "panicked"} =>
        /\ (status = 0) <=> AllStepsPassed
        /\ status \in {0, 1, 101}
        /\ (pc = "exited" /\ ~AllStepsPassed) => status = 1

\* the six commands passed, a config file was not formatted and the
\* process has ended with status 1
C11_Witness ==
    /\ pc = "exited"
    /\ spawned = PIPELINE_COMMANDS
    /\ output.code = 0
    /\ \E i \in DOMAIN CONFIG_FILES :
        Verdict(CONFIG_FILES[i], disk0) = "drifted"
    /\ status = 1

\* the spans inside which each command of the pipeline is meant to run
IntendedScopes(command) ==
    IF command = CLIPPY THEN <<"Check rust-utils", "Clippy">>
    ELSE IF command \in {DOC_PUBLIC, DOC_PRIVATE} THEN <<"Check rust-utils", "Docs">>
    ELSE IF command = FMT_CHECK THEN <<"Check rust-utils", "Format">>
    ELSE <<"Dependencies">>

\* C16: in a run of the pipeline without a launch panic the log never holds
\* more than one record at error level.  The step in which a value None is
\* first returned is the step that appends it, as the last record, while
\* the spans of the failing operation are still entered (the record
\* carries them: those of the failed command, or Formatting for a file);
\* from then on nothing more is logged, so the functions that pass None
\* on add nothing.  When the process has ended, the one error record is
\* there exactly if the exit status is not 0, and a run that ends with
\* status 0 holds none.
C16_OneErrorRecord ==
    /\ [](Cardinality(ErrorRecords(log)) <= 1)
    /\ []((ret = None) <=> (ErrorRecords(log) # {}))
    /\ [][ret' = None /\ ret # None =>
            /\ Len(log') > Len(log)
            /\ ErrorRecords(log') = {Len(log')}
            /\ scopes # <<>>
            /\ scopes' = scopes
            /\ log'[Len(log')].spans = scopes]_vars
    /\ [][ErrorRecords(log) # {} => log' = log]_vars
    /\ [](LastCommandFailed =>
            /\ log[Len(log)].text = "Failed"
            /\ log[Len(log)].spans = IntendedScopes(call.command))
    /\ [](ret = None /\ ~LastCommandFailed =>
            log[Len(log)].spans = <<"Formatting">>)
    /\ [](pc = "exited" =>
            /\ status # 0 => ErrorRecords(log) = {Len(log)}
            /\ status = 0 => ErrorRecords(log) = {})

\* cargo-machete found an unused dependency and the process has ended
C16_Witness ==
    /\ pc = "exited"
    /\ status = 1
    /\ call.command = MACHETE_RUN
    /\ LastCommandFailed
    /\ ErrorRecords(log) = {Len(log)}
    /\ log[Len(log)].spans = <<"Dependencies">>
    /\ scopes = <<>>

SUB_SCOPES == {"Clippy", "Docs", "Format"}

\* C19: the spans of a pipeline run form a stack.  Every step leaves the
\* stack as it is, enters one span on top of it, or closes spans from the
\* top only (what stays is a prefix of what was; an early return closes
\* the inner span before the outer one).  Clippy, Docs and Format are only
\* ever the second span, right inside Check rust-utils, so never two of
\* them at once; the outer span is one of Check rust-utils, Dependencies
\* and Formatting; the depth never exceeds 2.  Every command, whether its
\* launch succeeds or not, is run with exactly its intended spans entered
\* (clippy in Check rust-utils > Clippy, both doc commands in Check
\* rust-utils > Docs, fmt in Check rust-utils > Format, both cargo-machete
\* commands in Dependencies), every read and write of a config file
\* happens with exactly Formatting entered, and the records carry these
\* spans.
C19_ScopeStack ==
    /\ [][\/ scopes' = scopes
          \/ \E name \in SUB_SCOPES \cup {"Check rust-utils", "Dependencies", "Formatting"} :
                scopes' = Append(scopes, name)
          \/ Len(scopes') < Len(scopes) /\ IsPrefix(scopes', scopes)]_vars
    /\ [](Len(scopes) <= 2)
    /\ [](\A i \in DOMAIN scopes :
            IF scopes[i] \in SUB_SCOPES
            THEN i = 2 /\ scopes[1] = "Check rust-utils"
            ELSE i = 1 /\ scopes[i] \in {"Check rust-utils", "Dependencies", "Formatting"})
    /\ [](Len(scopes) = 2 => scopes[2] \in SUB_SCOPES)
    /\ [][call' # call =>
            /\ scopes = IntendedScopes(call'.command)
            /\ scopes' = scopes]_vars
    /\ [][spawned' # spawned =>
            \A i \in (Len(log) + 1)..Len(log') :
                log'[i].spans = IntendedScopes(call'.command)]_vars
    /\ [][fsops' # fsops =>
            /\ scopes = <<"Formatting">>
            /\ scopes' = scopes]_vars

\* both documentation commands have run inside Check rust-utils > Docs,
\* after Clippy was closed, and Docs is still open
C19_Witness ==
    /\ pc = "docs_exit"
    /\ scopes = <<"Check rust-utils", "Docs">>
    /\ spawned = <<CLIPPY, DOC_PUBLIC, DOC_PRIVATE>>
    /\ \A i \in DOMAIN log :
        log[i].spans = IF i = 1 THEN <<"Check rust-utils", "Clippy">>
                       ELSE <<"Check rust-utils", "Docs">>

\* C17: whatever the exit status of a launched process, the first record
\* that execute_command appends for it has as its text the description,
\* followed by a line break and the decoded stdout exactly if stdout is not
\* empty, followed by a line break and the decoded stderr exactly if stderr
\* is not empty, stdout before stderr.  (The captured stdout of the model
\* decodes to ok and the captured stderr to b followed by U+FFFD.)
C17_RecordText ==
    [][spawned' # spawned =>
        /\ Len(log') > Len(log)
        /\ log'[Len(log) + 1].text =
            call'.description
            \o (IF output'.stdout = <<>> THEN "" ELSE "\nok")
            \o (IF output'.stderr = <<>> THEN "" ELSE "\nb\\u{FFFD}")
        /\ \A i \in (Len(log) + 2)..Len(log') :
            log'[i].text = "Failed"]_vars

\* the private documentation command printed to stdout and to stderr and
\* exited with status 1
C17_Witness ==
    /\ output.launched
    /\ call.command = DOC_PRIVATE
    /\ output.code = 1
    /\ output.stdout # <<>>
    /\ output.stderr # <<>>
    /\ Len(log) = 4
    /\ log[3].text = "Generating the private documentation.\nok\nb\\u{FFFD}"

----------------------------------------------------------------------------
(* Further properties of format_files (SpecFormat) *)

SuccessRecords == {i \in DOMAIN log : log[i].text = SuccessMessage}

\* C12: the log of an invocation of format_files never holds the success
\* record while the value returned is not Some and never holds it twice;
\* once the invocation has returned, the record is there exactly once if
\* it returned Some, at informational level and as the only record, and
\* not at all if it returned None.  Called on no path at all, the
\* invocation returns Some with the one success record as its whole log,
\* without a single filesystem call and with the disk as it was.
C12_SuccessRecordOnce ==
    /\ Cardinality(SuccessRecords) <= 1
    /\ SuccessRecords # {} => ret = Some
    /\ pc = "returned" =>
        /\ ret \in {Some, None}
        /\ ret = Some =>
            log = <<[level |-> "INFO", text |-> SuccessMessage,
                     spans |-> <<"Formatting">>]>>
        /\ ret = None => SuccessRecords = {}
        /\ files = <<>> =>
            /\ ret = Some
            /\ Cardinality(SuccessRecords) = 1
            /\ fsops = <<>>
            /\ disk = disk0

\* format_files was called on the empty sequence of paths and has returned
C12_Witness ==
    /\ pc = "returned"
    /\ files = <<>>
    /\ ret = Some
    /\ Len(log) = 1
    /\ fsops = <<>>

\* index of the first of the passed paths whose formatted text differs from
\* its contents at the start of the invocation, 0 if there is none
FirstDrifted ==
    IF \A i \in DOMAIN files : Verdict(files[i], disk0) # "drifted" THEN 0
    ELSE CHOOSE k \in DOMAIN files :
            /\ Verdict(files[k], disk0) = "drifted"
            /\ \A j \in 1..(k - 1) : Verdict(files[j], disk0) # "drifted"

\* the filesystem calls that the iteration over the path files[k] makes
OpsAt(k) ==
    LET read == <<"read", files[k].display>>
        write == <<"write", files[k].display>>
        verdict == Verdict(files[k], disk0)
    IN  IF verdict = "unresolved" THEN <<>>
        ELSE IF verdict = "drifted" THEN <<read, write>>
        ELSE <<read>>

Changed == {n \in DOMAIN disk : disk[n] # disk0[n]}

\* C15: format_files stops at the first path that fails and changes at most
\* one file.  At every moment its filesystem calls are the reads of the
\* first n paths in their order, with at most one write, which is the last
\* call and goes to the path read right before it.  When it has returned
\* after a failure, the calls are the reads of the paths before the first
\* failing one followed by the calls of that path only (none if its type
\* does not resolve, its read, and its write if it drifted), the log holds
\* the one record of that failure and the value is None: no later path is
\* resolved, read or written.  At most one file differs from the start of
\* the invocation, and only the first path in order whose formatted text
\* differs from its contents can be that file.  No step creates, removes
\* or renames a file: the names on disk are those of the start, an
\* unreadable name stays unreadable and a readable one readable.
C15_FailFastOneFile ==
    /\ [](\E n \in 0..Len(files) :
            \/ fsops = ReadsUpTo(n)
            \/ n > 0 /\ fsops = Append(ReadsUpTo(n), <<"write", files[n].display>>))
    /\ [](Cardinality(Writes) <= 1)
    /\ [](pc = "returned" /\ FirstFailing # 0 =>
            /\ ret = None
            /\ fsops = ReadsUpTo(FirstFailing - 1) \o OpsAt(FirstFailing)
            /\ Len(log) = 1
            /\ log[1].level = "ERROR")
    /\ [](Cardinality(Changed) <= 1)
    /\ [](Changed # {} =>
            /\ FirstDrifted # 0
            /\ FirstDrifted = FirstFailing
            /\ Changed = {files[FirstDrifted].display}
            /\ Writes # {})
    /\ [](/\ DOMAIN disk = DOMAIN disk0
          /\ \A n \in DOMAIN disk :
                (disk[n] = Unreadable) <=> (disk0[n] = Unreadable))
    /\ [][/\ DOMAIN disk' = DOMAIN disk
          /\ \A n \in DOMAIN disk :
                (disk'[n] = Unreadable) <=> (disk[n] = Unreadable)]_vars

\* two different drifted files were passed: the first was rewritten, the
\* second was neither read nor written, and format_files has returned
C15_Witness ==
    /\ pc = "returned"
    /\ Len(files) = 2
    /\ files[1].display # files[2].display
    /\ Verdict(files[1], disk0) = "drifted"
    /\ Verdict(files[2], disk0) = "drifted"
    /\ Changed = {files[1].display}
    /\ ~Reached(files[2])
    /\ disk[files[2].display] = disk0[files[2].display]

\* both engines are idempotent on the contents of the model
Idempotent ==
    \A c \in Contents :
        /\ taplo[taplo[c]] = taplo[c]
        /\ pretty_yaml[c] # SyntaxError => pretty_yaml[pretty_yaml[c]] = pretty_yaml[c]

\* the invocations of format_files made so far, the one that has just
\* returned last
Invocations ==
    Append(trail, [disk0 |-> disk0, log |-> log, ret |-> ret, fsops |-> fsops])

\* the disk that the r-th invocation left behind
DiskAfter(r) == IF r < Len(Invocations) THEN Invocations[r + 1].disk0 ELSE disk

\* the passed files that are drifted on the disk d
Drifted(d) ==
    {files[i].display : i \in {j \in DOMAIN files : Verdict(files[j], d) = "drifted"}}

\* the passed files that are formatted on the disk d
Canonical(d) ==
    {files[i].display : i \in {j \in DOMAIN files : Verdict(files[j], d) = "formatted"}}

\* every passed path resolves and its file is readable and parseable at
\* the start of the first invocation, and no overwrite has failed
NoOtherError ==
    /\ \A i \in DOMAIN files :
        Verdict(files[i], Invocations[1].disk0) \in {"formatted", "drifted"}
    /\ \A r \in DOMAIN Invocations :
        \A n \in DOMAIN Invocations[r].log, i \in DOMAIN files :
            Invocations[r].log[n].text
                # WithContext(WriteContext(files[i]), "<io error>")

\* the first passed path that is drifted on the disk d
FirstDriftedOn(d) ==
    files[CHOOSE k \in DOMAIN files :
            /\ Verdict(files[k], d) = "drifted"
            /\ \A j \in 1..(k - 1) : Verdict(files[j], d) # "drifted"]

\* C20: let format_files be called again and again on the same paths with
\* idempotent engines, every path resolving to a type and every file
\* readable and parseable, and no overwrite failing; let k files be
\* drifted at the start.  Then of the invocations made so far the r-th
\* returned None if r <= k and Some otherwise.  An invocation that
\* returned None started with k - r + 1 drifted files, rewrote the first
\* drifted path in order to its formatted text, which is formatted from
\* then on, and left every other file as it was; every file that was
\* formatted at its start is formatted at its end.  An invocation that
\* returned Some started with no drifted file, made no write and left the
\* disk as it was, as does every invocation after it.
C20_Converges ==
    ( /\ pc = "returned"
      /\ Idempotent
      /\ NoOtherError )
    => LET k == Cardinality(Drifted(Invocations[1].disk0))
       IN  \A r \in DOMAIN Invocations :
            LET before == Invocations[r].disk0
                after == DiskAfter(r)
            IN  /\ Invocations[r].ret = IF r <= k THEN None ELSE Some
                /\ Canonical(before) \subseteq Canonical(after)
                /\ r <= k =>
                    /\ Cardinality(Drifted(before)) = k - r + 1
                    /\ Cardinality(Drifted(after)) = k - r
                    /\ after = [before EXCEPT ![FirstDriftedOn(before).display] =
                                    FormatOf(FirstDriftedOn(before), before)]
                    /\ FirstDriftedOn(before).display \in Canonical(after)
                /\ r > k =>
                    /\ Drifted(before) = {}
                    /\ after = before
                    /\ \A n \in DOMAIN Invocations[r].fsops :
                        Invocations[r].fsops[n][1] # "write"

\* one of two passed files was drifted: the first invocation rewrote it and
\* returned None, the second has returned Some and wrote nothing
C20_Witness ==
    /\ pc = "returned"
    /\ Idempotent
    /\ NoOtherError
    /\ Len(files) = 2
    /\ Len(Invocations) = 2
    /\ Cardinality(Drifted(Invocations[1].disk0)) = 1
    /\ Invocations[1].ret = None
    /\ Invocations[2].ret = Some
    /\ Writes = {}
    /\ disk = disk0

----------------------------------------------------------------------------
(* Properties of FormatType (SpecPure) *)

\* the contents are not parseable as the given type: the parser of taplo
\* reports syntax errors in them, or pretty_yaml rejects them
Unparseable(self, file_contents) ==
    IF self = "Toml"
    THEN file_contents \in toml_errors
    ELSE pretty_yaml[file_contents] = SyntaxError

\* C13 as stated: for TOML and for YAML, FormatType::format applied to
\* contents that are not parseable as that type returns an error.
C13_UnparseableFails ==
    ( /\ applied.fn = "format"
      /\ Unparseable(applied.self, applied.file_contents) )
    => ~applied.out.ok

\* the three errors of FormatType::parse for a path shown as shown
NoExtension(shown) == "'" \o shown \o "' doesn't have a file extension."
NotUtf8Extension(shown) == "'" \o shown \o "' doesn't have an UTF-8 file extension."
UnsupportedExtension(shown) ==
    "The extension of '" \o shown \o "' isn't supported file extension."

\* which of the three errors a result of FormatType::parse is, "" if none
ErrorKind(out, shown) ==
    IF out.ok THEN ""
    ELSE IF out.err = NoExtension(shown) THEN "none"
    ELSE IF out.err = NotUtf8Extension(shown) THEN "not utf-8"
    ELSE IF out.err = UnsupportedExtension(shown) THEN "unsupported"
    ELSE "other"

\* C18: FormatType::parse applied to a path returns Toml if the extension
\* is exactly toml, Yaml if it is exactly yaml or yml, and succeeds for no
\* other path; a path without extension fails with the error of the
\* missing extension, one whose extension is not UTF-8 with the error of
\* the encoding, and any other extension (TOML, Yaml, tml, yamll, json,
\* txt) with the error of the unsupported extension, three different
\* texts.  Every other path with the same extension, whatever its stem or
\* directory, gets the same type or the same kind of error.
C18_ParseByExtension ==
    applied.fn = "parse" =>
        LET file_path == applied.file_path
            extension == file_path.extension
            shown == file_path.display
            out == applied.out
        IN  /\ extension = <<"Str", "toml">> => out = Ok("Toml")
            /\ extension \in {<<"Str", "yaml">>, <<"Str", "yml">>} => out = Ok("Yaml")
            /\ out.ok =>
                extension \in {<<"Str", "toml">>, <<"Str", "yaml">>, <<"Str", "yml">>}
            /\ extension = <<"None">> => ErrorKind(out, shown) = "none"
            /\ extension = <<"NonUtf8">> => ErrorKind(out, shown) = "not utf-8"
            /\ ( /\ extension[1] = "Str"
                 /\ extension[2] \notin {"toml", "yaml", "yml"} )
               => ErrorKind(out, shown) = "unsupported"
            /\ Cardinality({NoExtension(shown), NotUtf8Extension(shown),
                            UnsupportedExtension(shown)}) = 3
            /\ \A other \in PARSE_PATHS :
                other.extension = extension =>
                    /\ FormatType_parse(other).ok = out.ok
                    /\ out.ok => FormatType_parse(other).val = out.val
                    /\ ErrorKind(FormatType_parse(other), other.display)
                        = ErrorKind(out, shown)

\* FormatType::parse was applied to a path whose extension is TOML in
\* capitals and returned the error of the unsupported extension
C18_Witness ==
    /\ applied.fn = "parse"
    /\ applied.file_path.extension = <<"Str", "TOML">>
    /\ ~applied.out.ok
    /\ applied.out.err = UnsupportedExtension(applied.file_path.display)

====
